---- MODULE Spec2Model ----
(***************************************************************************)
(* Duplicate-receipt detection of EE Expenses: the candidate matcher       *)
(* (findPotentialDuplicates, stringSimilarity), the deep analyzer          *)
(* (aiDuplicateAnalysis), the OCR call with its retries                    *)
(* (extractReceiptData) and the upload, duplicate-resolution, submit and   *)
(* verification handlers of the server.                                    *)
(*                                                                         *)
(* Amounts are integers in thousandths of a currency unit ("mills"), so    *)
(* that rounding to two decimals is a real conversion; normalised amounts  *)
(* are integers in hundredths ("cents").  Similarities are exact rationals *)
(* [num, den].  Strings are sequences of one-character strings.            *)
(***************************************************************************)
EXTENDS Integers, Sequences, FiniteSets, TLC

VARIABLES
    \* ---- matcher harness: one call of findPotentialDuplicates ----
    newReceipt,     \* the candidate's OCR data
    scopeUser,      \* the userId argument ("null" = search all users)
    rows,           \* the receipts table the query runs against
    duplicates,     \* the returned list
    mpc,            \* "start" | "done"
    \* ---- analyzer harness: one call of aiDuplicateAnalysis ----
    existingReceipts, \* the candidates handed to the analyzer (their ids)
    provider,       \* outcome of the provider call
    verdict,        \* the outcome of the call: [kind, value]
    apc,            \* "start" | "done" | "raised"
    \* ---- server: receipts table and in-flight upload requests ----
    receipts,       \* the receipts table, in insertion order
    uploads,        \* the upload requests in flight, in order of arrival
    \* ---- server: expense claims ----
    expenses,       \* the expenses table, in insertion order
    submits,        \* the submit requests in flight
    \* ---- similarity harness: one call of stringSimilarity ----
    simCall,        \* [pc, str1, str2, result]
    \* ---- OCR harness: one call of extractReceiptData ----
    ocrCall,        \* [pc, attempt, calls, result]
    \* ---- server: how the last upload request that arrived was answered ----
    arrival         \* [userId, ocrResult, outcome]

vars == <<newReceipt, scopeUser, rows, duplicates, mpc,
          existingReceipts, provider, verdict, apc,
          receipts, uploads, expenses, submits, simCall, ocrCall, arrival>>

matcherVars  == <<newReceipt, scopeUser, rows, duplicates, mpc>>
analyzerVars == <<existingReceipts, provider, verdict, apc>>
serverVars   == <<receipts, uploads>>
claimVars    == <<expenses, submits>>
harnessVars  == <<simCall, ocrCall, arrival>>

\* a null date
Null == "null"

\* receipt ids are 1, 2, ... in insertion order; a null duplicate_of / matchedReceiptId is 0
NoId == 0

Min(a, b) == IF a < b THEN a ELSE b
Abs(a)    == IF a < 0 THEN 0 - a ELSE a

(***************************************************************************)
(* Strings                                                                 *)
(***************************************************************************)
\* String.prototype.toLowerCase, one character
LowerChar(c) ==
    CASE c = "K" -> "k" [] c = "O" -> "o" [] c = "P" -> "p" [] c = "I" -> "i"
      [] c = "E" -> "e" [] c = "N" -> "n" [] c = "A" -> "a" [] c = "G" -> "g"
      [] c = "T" -> "t" [] c = "M" -> "m" [] c = "F" -> "f" [] c = "C" -> "c"
      [] c = "B" -> "b"
      [] OTHER -> c

toLowerCase(s) == [k \in 1..Len(s) |-> LowerChar(s[k])]

RECURSIVE trimStart(_)
trimStart(s) ==
    IF s # <<>> /\ Head(s) = " " THEN trimStart(Tail(s)) ELSE s

RECURSIVE trimEnd(_)
trimEnd(s) ==
    IF s # <<>> /\ s[Len(s)] = " " THEN trimEnd(SubSeq(s, 1, Len(s) - 1)) ELSE s

trim(s) == trimEnd(trimStart(s))

(***************************************************************************)
(* stringSimilarity: the row-by-row edit-distance loop of the source.      *)
(* costs[j] of the source is costs[j + 1] here (sequences start at 1); the *)
(* array has longer.length + 1 entries, so j <= longer.length reads        *)
(* j < Len(costs).                                                         *)
(***************************************************************************)
RECURSIVE InnerLoop(_, _, _, _, _, _)
InnerLoop(shorter, longer, i, j, costs, lastValue) ==
    IF j >= Len(costs) THEN [costs |-> costs, lastValue |-> lastValue]
    ELSE IF i = 0 THEN
        InnerLoop(shorter, longer, i, j + 1, [costs EXCEPT ![j + 1] = j], lastValue)
    ELSE IF j > 0 THEN
        LET newValue == IF shorter[i] # longer[j]
                        THEN Min(Min(costs[j], lastValue), costs[j + 1]) + 1
                        ELSE costs[j]
        IN  InnerLoop(shorter, longer, i, j + 1,
                      [costs EXCEPT ![j] = lastValue], newValue)
    ELSE InnerLoop(shorter, longer, i, j + 1, costs, lastValue)

RECURSIVE OuterLoop(_, _, _, _)
OuterLoop(shorter, longer, i, costs) ==
    IF i > Len(shorter) THEN costs
    ELSE LET r == InnerLoop(shorter, longer, i, 0, costs, i)
         IN  OuterLoop(shorter, longer, i + 1,
                       [r.costs EXCEPT ![Len(longer) + 1] = r.lastValue])

\* variant: the distance is divided by the first string's length
stringSimilarity_ByFirstLength(str1, str2) ==
    LET s1 == trim(toLowerCase(str1))
        s2 == trim(toLowerCase(str2))
        longer  == IF Len(s1) > Len(s2) THEN s1 ELSE s2
        shorter == IF Len(s1) > Len(s2) THEN s2 ELSE s1
        costs   == OuterLoop(shorter, longer, 0, [k \in 1..(Len(longer) + 1) |-> 0])
    IN  IF s1 = s2 THEN [num |-> 1, den |-> 1]
        ELSE IF Len(s1) = 0 \/ Len(s2) = 0 THEN [num |-> 0, den |-> 1]
        ELSE [num |-> Len(longer) - costs[Len(longer) + 1], den |-> Len(s1)]

stringSimilarity(str1, str2) ==
    LET s1 == trim(toLowerCase(str1))
        s2 == trim(toLowerCase(str2))
        longer  == IF Len(s1) > Len(s2) THEN s1 ELSE s2
        shorter == IF Len(s1) > Len(s2) THEN s2 ELSE s1
        costs   == OuterLoop(shorter, longer, 0, [k \in 1..(Len(longer) + 1) |-> 0])
    IN  IF s1 = s2 THEN [num |-> 1, den |-> 1]
        ELSE IF Len(s1) = 0 \/ Len(s2) = 0 THEN [num |-> 0, den |-> 1]
        ELSE [num |-> Len(longer) - costs[Len(longer) + 1], den |-> Len(longer)]

\* sim > n/10, exactly
SimAbove(sim, tenths) == 10 * sim.num > tenths * sim.den

(***************************************************************************)
(* Matcher: normalisation, the amount-range query, scoring, sort           *)
(***************************************************************************)
\* Math.round(parseFloat(amount || 0) * 100) / 100, mills -> cents
\* (Math.round rounds halves towards +infinity)
normalizeAmount(amount) == (amount + 5) \div 10

\* the strings new Date() can parse, and the date part of their ISO form
ParseableDates == {"2024-03-01", "2024-03-01T10:00:00Z", "2024-03-02"}

toISODate(dateStr) ==
    CASE dateStr = "2024-03-01"           -> "2024-03-01"
      [] dateStr = "2024-03-01T10:00:00Z" -> "2024-03-01"
      [] dateStr = "2024-03-02"           -> "2024-03-02"

\* "" is the absent date; an unparseable string makes toISOString throw
normalizeDate(dateStr) ==
    IF dateStr = "" THEN Null
    ELSE IF dateStr \notin ParseableDates THEN Null
    ELSE toISODate(dateStr)

LIMIT == 50

\* SELECT * FROM receipts WHERE amount >= $1 AND amount <= $2 [AND user_id = $3] LIMIT 50
\* with $1 = newAmount * 0.95 and $2 = newAmount * 1.05 (newAmount in cents, stored amount in mills)
QueryRows(table, newAmount, userId) ==
    LET InRange(r) == /\ 100 * r.ocr_data.amount >= 950 * newAmount
                      /\ 100 * r.ocr_data.amount <= 1050 * newAmount
                      /\ (userId # Null => r.user_id = userId)
        hits == SelectSeq(table, InRange)
    IN  SubSeq(hits, 1, Min(Len(hits), LIMIT))

\* amountMatch: Math.abs(newAmount - normalizeAmount(existing)) < 0.01, in cents.
\* (Amounts exactly one cent apart are not drawn by the harnesses: whether their
\* floating-point difference falls below 0.01 depends on the two values.)
AmountMatch(newAmount, existingAmount) ==
    Abs(newAmount - normalizeAmount(existingAmount)) < 1

\* variant: the two null checks are missing
DateMatch_NullsEqual(newDate, existingDate) == newDate = existingDate

\* dateMatch: newDate && existingDate && newDate === existingDate
DateMatch(newDate, existingDate) ==
    newDate # Null /\ existingDate # Null /\ newDate = existingDate
\* variant: the merchant threshold is not strict
MerchantMatch_AtLeast(merchantSimilarity) == 10 * merchantSimilarity.num >= 7 * merchantSimilarity.den

\* merchantMatch: merchantSimilarity > 0.7
MerchantMatch(merchantSimilarity) == SimAbove(merchantSimilarity, 7)
\* variant: the merchant signal weighs 20
Confidence_Merchant20(amountMatch, dateMatch, merchantMatch) ==
      (IF amountMatch THEN 40 ELSE 0)
    + (IF dateMatch THEN 35 ELSE 0)
    + (IF merchantMatch THEN 20 ELSE 0)

\* variant: the date signal weighs 45
Confidence_Date45(amountMatch, dateMatch, merchantMatch) ==
      (IF amountMatch THEN 40 ELSE 0)
    + (IF dateMatch THEN 45 ELSE 0)
    + (IF merchantMatch THEN 25 ELSE 0)

\* confidence: += 40, += 35, += 25
Confidence(amountMatch, dateMatch, merchantMatch) ==
      (IF amountMatch THEN 40 ELSE 0)
    + (IF dateMatch THEN 35 ELSE 0)
    + (IF merchantMatch THEN 25 ELSE 0)

\* variant: a similarity of exactly 0.9 is labelled 'Same merchant'
Reasons_SameFrom09(amountMatch, dateMatch, merchantSimilarity) ==
       (IF amountMatch THEN <<"Same amount">> ELSE <<>>)
    \o (IF dateMatch THEN <<"Same date">> ELSE <<>>)
    \o (IF MerchantMatch(merchantSimilarity)
        THEN IF 10 * merchantSimilarity.num >= 9 * merchantSimilarity.den
             THEN <<"Same merchant">> ELSE <<"Similar merchant">>
        ELSE <<>>)

\* reasons.push(...), in the order of the three ifs
Reasons(amountMatch, dateMatch, merchantSimilarity) ==
       (IF amountMatch THEN <<"Same amount">> ELSE <<>>)
    \o (IF dateMatch THEN <<"Same date">> ELSE <<>>)
    \o (IF MerchantMatch(merchantSimilarity)
        THEN IF SimAbove(merchantSimilarity, 9)
             THEN <<"Same merchant">> ELSE <<"Similar merchant">>
        ELSE <<>>)
\* variant: the emission threshold is 40
Emits_From40(confidence) == confidence >= 40

\* variant: the emission threshold is strict
Emits_Above60(confidence) == confidence > 60

\* if (confidence >= 60) duplicates.push(...)
Emits(confidence) == confidence >= 60

\* the body of the for loop for one row: the scores and the match it would push
Score(newOcr, existing) ==
    LET newAmount        == normalizeAmount(newOcr.amount)
        newDate          == normalizeDate(newOcr.date)
        newMerchant      == toLowerCase(newOcr.merchant)
        existingOcr      == existing.ocr_data
        existingDate     == normalizeDate(existingOcr.date)
        existingMerchant == toLowerCase(existingOcr.merchant)
        amountMatch      == AmountMatch(newAmount, existingOcr.amount)
        dateMatch        == DateMatch(newDate, existingDate)
        merchantSimilarity == stringSimilarity(newMerchant, existingMerchant)
        merchantMatch    == MerchantMatch(merchantSimilarity)
        confidence       == Confidence(amountMatch, dateMatch, merchantMatch)
    IN  [id |-> existing.id, userId |-> existing.user_id,
         confidence |-> confidence,
         reasons |-> Reasons(amountMatch, dateMatch, merchantSimilarity),
         merchantSimilarity |-> merchantSimilarity,
         amountMatch |-> amountMatch, dateMatch |-> dateMatch,
         merchantMatch |-> merchantMatch,
         emit |-> Emits(confidence)]

\* the match record as pushed (the score's working values dropped)
Match(sc) == [id |-> sc.id, userId |-> sc.userId, confidence |-> sc.confidence,
              reasons |-> sc.reasons, merchantSimilarity |-> sc.merchantSimilarity]

\* variant: rows marked as duplicates are scored like the others
ScanRows_NoSkip(newOcr, resultRows) ==
    LET pushed == SelectSeq(resultRows, LAMBDA existing : Score(newOcr, existing).emit)
    IN  [k \in 1..Len(pushed) |-> Match(Score(newOcr, pushed[k]))]

\* for (const existing of result.rows) { ... }: the matches pushed, in the
\* order of the rows; a row with duplicate_of set is skipped
ScanRows(newOcr, resultRows) ==
    LET pushed == SelectSeq(resultRows,
                      LAMBDA existing : existing.duplicate_of = NoId
                                        /\ Score(newOcr, existing).emit)
    IN  [k \in 1..Len(pushed) |-> Match(Score(newOcr, pushed[k]))]

\* variant: an entry is moved behind later entries of the same confidence
RECURSIVE InsertSorted_Unstable(_, _)
InsertSorted_Unstable(m, sorted) ==
    IF sorted = <<>> THEN <<m>>
    ELSE IF Head(sorted).confidence >= m.confidence
         THEN <<Head(sorted)>> \o InsertSorted_Unstable(m, Tail(sorted))
         ELSE <<m>> \o sorted

\* Array.prototype.sort((a, b) => b.confidence - a.confidence): the sort is
\* stable, an entry stays in front of the later entries it compares equal to
RECURSIVE InsertSorted(_, _)
InsertSorted(m, sorted) ==
    IF sorted = <<>> THEN <<m>>
    ELSE IF Head(sorted).confidence > m.confidence
         THEN <<Head(sorted)>> \o InsertSorted(m, Tail(sorted))
         ELSE <<m>> \o sorted

RECURSIVE SortByConfidence(_)
SortByConfidence(list) ==
    IF list = <<>> THEN <<>>
    ELSE InsertSorted(Head(list), SortByConfidence(Tail(list)))

findPotentialDuplicates(table, newOcr, userId) ==
    SortByConfidence(ScanRows(newOcr, QueryRows(table, normalizeAmount(newOcr.amount), userId)))

(***************************************************************************)
(* Matcher harness: one call of findPotentialDuplicates on a candidate and *)
(* a table holding at most one historical row.                            *)
(***************************************************************************)
KopiKenangan      == <<"K", "o", "p", "i", " ", "K", "e", "n", "a", "n", "g", "a", "n">>
KopiKenanganUpper == <<"K", "O", "P", "I", " ", "K", "E", "N", "A", "N", "G", "A", "N", " ">>
KopiKenangann     == <<"K", "o", "p", "i", " ", "K", "e", "n", "a", "n", "g", "a", "n", "n">>
KopiKenang        == <<"K", "o", "p", "i", " ", "K", "e", "n", "a", "n", "g">>
TenLetters        == <<"a", "b", "c", "d", "e", "f", "g", "h", "i", "j">>
TenLettersXYZ     == <<"a", "b", "c", "d", "e", "f", "g", "x", "y", "z">>
TenLettersZ       == <<"a", "b", "c", "d", "e", "f", "g", "h", "i", "z">>

Users == {"u1", "u2"}

CandAmounts   == {10000, 0, -10000}
RowAmounts    == {10000, 10004, 10400, 20000, 0, -10000}
CandDates     == {"2024-03-01", "", "garbage"}
RowDates      == {"", "garbage", "2024-03-01", "2024-03-01T10:00:00Z", "2024-03-02"}
CandMerchants == {<<>>, KopiKenangan, TenLetters}
RowMerchants  == {<<>>, KopiKenangan, KopiKenanganUpper, KopiKenangann,
                  KopiKenang, TenLetters, TenLettersXYZ, TenLettersZ}

CandSet == [amount : CandAmounts, date : CandDates, merchant : CandMerchants]

RowSet == [id : {1}, user_id : Users,
           ocr_data : [amount : RowAmounts, date : RowDates, merchant : RowMerchants],
           duplicate_of : {NoId, 9}]

AnalyzerIdle == /\ existingReceipts = <<>>
                /\ provider = [kind |-> "idle"]
                /\ verdict = [kind |-> "idle"]
                /\ apc = "idle"

ServerIdle == /\ receipts = <<>>
              /\ uploads = <<>>

ClaimIdle == /\ expenses = <<>>
             /\ submits = <<>>

SimilarityIdle == simCall = [pc |-> "idle"]

OcrIdle == ocrCall = [pc |-> "idle"]

ArrivalIdle == arrival = [outcome |-> "none"]

MatcherInit ==
    /\ newReceipt \in CandSet
    /\ scopeUser \in {Null, "u1"}
    /\ rows \in {<<>>} \cup {<<r>> : r \in RowSet}
    /\ duplicates = <<>>
    /\ mpc = "start"
    /\ AnalyzerIdle
    /\ ServerIdle
    /\ ClaimIdle
    /\ SimilarityIdle
    /\ OcrIdle
    /\ ArrivalIdle

FindDuplicates ==
    /\ mpc = "start"
    /\ duplicates' = findPotentialDuplicates(rows, newReceipt, scopeUser)
    /\ mpc' = "done"
    /\ UNCHANGED <<newReceipt, scopeUser, rows>>
    /\ UNCHANGED analyzerVars
    /\ UNCHANGED serverVars
    /\ UNCHANGED claimVars
    /\ UNCHANGED harnessVars

MatcherNext == FindDuplicates

MatcherSpec == MatcherInit /\ [][MatcherNext]_vars

(***************************************************************************)
(* Window harness: one call of findPotentialDuplicates against a table of  *)
(* several rows.  The table is in the order in which the store returns its *)
(* rows (the query has no ORDER BY); a row's id is its position.           *)
(***************************************************************************)
MaxRows == 3

WindowCandidate == [amount |-> 10000, date |-> "2024-03-01", merchant |-> KopiKenangan]

\* rows scoring 100, 75, 65, 60 and below against the candidate
WindowRowData == [amount : {10000, 10400}, date : {"2024-03-01", "2024-03-02"},
                  merchant : {KopiKenangan, TenLetters}]

WindowTables ==
    UNION {{[k \in 1..n |-> [id |-> k, user_id |-> "u1", ocr_data |-> t[k],
                             duplicate_of |-> NoId]] : t \in [1..n -> WindowRowData]} :
           n \in 0..MaxRows}

WindowInit ==
    /\ newReceipt = WindowCandidate
    /\ scopeUser \in {Null, "u1"}
    /\ rows \in WindowTables
    /\ duplicates = <<>>
    /\ mpc = "start"
    /\ AnalyzerIdle
    /\ ServerIdle
    /\ ClaimIdle
    /\ SimilarityIdle
    /\ OcrIdle
    /\ ArrivalIdle

WindowSpec == WindowInit /\ [][MatcherNext]_vars

(***************************************************************************)
(* Limit harness: one call of findPotentialDuplicates against a table in   *)
(* which the store returns a number of non-matching rows of the queried    *)
(* amount range before the one row that equals the candidate.              *)
(***************************************************************************)
MaxFillers == 55

\* in the amount range, other date, other merchant: scores 0
FillerRow(id) ==
    [id |-> id, user_id |-> "u1",
     ocr_data |-> [amount |-> 10400, date |-> "2024-03-02", merchant |-> TenLetters],
     duplicate_of |-> NoId]

\* equal to the candidate: scores 100
TargetRow(id, user) ==
    [id |-> id, user_id |-> user, ocr_data |-> WindowCandidate, duplicate_of |-> NoId]

LimitTables ==
    {[k \in 1..(n + 1) |-> IF k <= n THEN FillerRow(k) ELSE TargetRow(k, user)] :
        n \in 0..MaxFillers, user \in Users}

LimitInit ==
    /\ newReceipt = WindowCandidate
    /\ scopeUser \in {Null, "u1"}
    /\ rows \in LimitTables
    /\ duplicates = <<>>
    /\ mpc = "start"
    /\ AnalyzerIdle
    /\ ServerIdle
    /\ ClaimIdle
    /\ SimilarityIdle
    /\ OcrIdle
    /\ ArrivalIdle

LimitSpec == LimitInit /\ [][MatcherNext]_vars

(***************************************************************************)
(* Properties of the matcher                                               *)
(***************************************************************************)
Range(seq) == {seq[k] : k \in 1..Len(seq)}

\* the record is in the search scope of the call
InScope(r) == scopeUser = Null \/ r.user_id = scopeUser

\* the record's amount lies within +-5% of the candidate's normalised amount
WithinFivePercent(r) ==
    /\ 100 * r.ocr_data.amount >= 950 * normalizeAmount(newReceipt.amount)
    /\ 100 * r.ocr_data.amount <= 1050 * normalizeAmount(newReceipt.amount)

ReturnedWith(r, confidence) ==
    \E m \in Range(duplicates) : m.id = r.id /\ m.confidence = confidence

Returned(r) == \E m \in Range(duplicates) : m.id = r.id

SameFields(r) ==
    /\ r.ocr_data.amount = newReceipt.amount
    /\ r.ocr_data.date = newReceipt.date
    /\ r.ocr_data.merchant = newReceipt.merchant

SignalsOf(r) == Score(newReceipt, r)

ExactlyOneSignal(sc) ==
    \/ sc.amountMatch /\ ~sc.dateMatch /\ ~sc.merchantMatch
    \/ ~sc.amountMatch /\ sc.dateMatch /\ ~sc.merchantMatch
    \/ ~sc.amountMatch /\ ~sc.dateMatch /\ sc.merchantMatch

\* C3: a record on which exactly one of the three signals fires has a
\* confidence of at most 40 and is not in the returned list.
C3_SingleSignalNeverEmitted ==
    mpc = "done" =>
        \A r \in Range(rows) :
            ExactlyOneSignal(SignalsOf(r))
            => SignalsOf(r).confidence <= 40 /\ ~Returned(r)

\* an amount-only pair inside the queried range
C3_Witness ==
    /\ mpc = "done"
    /\ \E r \in Range(rows) :
          /\ SignalsOf(r).amountMatch /\ ~SignalsOf(r).dateMatch /\ ~SignalsOf(r).merchantMatch
          /\ SignalsOf(r).confidence = 40
          /\ InScope(r) /\ WithinFivePercent(r) /\ r.duplicate_of = NoId
          /\ duplicates = <<>>

\* C4 as stated: date + merchant without amount gives 60 and is returned,
\* amount + merchant without date gives 65 and is returned, whatever the
\* amounts are.
C4_AnyTwoSignalsEmitted ==
    mpc = "done" =>
        \A r \in Range(rows) :
            (InScope(r) /\ r.duplicate_of = NoId /\ newReceipt.amount >= 0) =>
                /\ (SignalsOf(r).dateMatch /\ SignalsOf(r).merchantMatch /\ ~SignalsOf(r).amountMatch
                      => ReturnedWith(r, 60))
                /\ (SignalsOf(r).amountMatch /\ SignalsOf(r).merchantMatch /\ ~SignalsOf(r).dateMatch
                      => ReturnedWith(r, 65))

\* the rows the range query of the call returns
QueriedRows == Range(QueryRows(rows, normalizeAmount(newReceipt.amount), scopeUser))

\* C4 (amended): among the rows the range query returns (amount within +-5%
\* of the candidate's, in scope, inside the LIMIT) and not marked as
\* duplicates, a record matching on date and merchant but not on amount gets
\* confidence 60 and is returned, and a record matching on amount and
\* merchant but not on date gets 65 and is returned.
C4_TwoSignalsEmittedInRange ==
    mpc = "done" =>
        \A r \in QueriedRows :
            r.duplicate_of = NoId =>
                /\ (SignalsOf(r).dateMatch /\ SignalsOf(r).merchantMatch /\ ~SignalsOf(r).amountMatch
                      => ReturnedWith(r, 60))
                /\ (SignalsOf(r).amountMatch /\ SignalsOf(r).merchantMatch /\ ~SignalsOf(r).dateMatch
                      => ReturnedWith(r, 65))

\* a record 4% above the candidate's amount, same date and merchant
C4_Witness ==
    /\ mpc = "done"
    /\ newReceipt.amount = 10000
    /\ \E r \in Range(rows) :
          /\ r.ocr_data.amount = 10400
          /\ SignalsOf(r).dateMatch /\ SignalsOf(r).merchantMatch /\ ~SignalsOf(r).amountMatch
          /\ ReturnedWith(r, 60)

\* C5: a record whose duplicate_of is set is never in the returned list.
C5_MarkedDuplicateNeverReturned ==
    mpc = "done" =>
        \A r \in Range(rows) : r.duplicate_of # NoId => ~Returned(r)

\* a marked record that would score 100
C5_Witness ==
    /\ mpc = "done"
    /\ \E r \in Range(rows) :
          /\ r.duplicate_of # NoId
          /\ InScope(r) /\ WithinFivePercent(r)
          /\ SignalsOf(r).confidence = 100
          /\ duplicates = <<>>

\* C16: the returned list is in non-increasing order of confidence, and
\* entries of equal confidence are in the order in which the store returned
\* their rows (a row's id is its position in that order).
C16_SortedDescendingStable ==
    mpc = "done" =>
        \A i \in 1..Len(duplicates) : \A j \in 1..Len(duplicates) :
            i < j =>
                /\ duplicates[i].confidence >= duplicates[j].confidence
                /\ duplicates[i].confidence = duplicates[j].confidence
                      => duplicates[i].id < duplicates[j].id

\* the last row scores highest and the first two tie
C16_Witness ==
    /\ mpc = "done"
    /\ Len(rows) = 3
    /\ Len(duplicates) = 3
    /\ duplicates[1].id = 3 /\ duplicates[1].confidence = 100
    /\ duplicates[2].id = 1 /\ duplicates[2].confidence = 75
    /\ duplicates[3].id = 2 /\ duplicates[3].confidence = 75

\* C17: every stored receipt in the search scope, not marked as a duplicate,
\* whose confidence against the candidate is at least 60 is in the returned
\* list, however many receipts the store holds.
C17_MatcherComplete ==
    mpc = "done" =>
        \A r \in Range(rows) :
            (InScope(r) /\ r.duplicate_of = NoId /\ SignalsOf(r).confidence >= 60)
            => Returned(r)

\* C18: for a candidate whose amount is zero or negative, a record in scope,
\* not marked as a duplicate, with the same amount, the same (parseable)
\* date and the same merchant is returned with confidence 100.
C18_ZeroOrNegativeAmountFound ==
    mpc = "done" =>
        \A r \in Range(rows) :
            ( /\ newReceipt.amount <= 0
              /\ SameFields(r)
              /\ normalizeDate(newReceipt.date) # Null
              /\ InScope(r)
              /\ r.duplicate_of = NoId )
            => ReturnedWith(r, 100)

\* both dates are present and parseable and have the same YYYY-MM-DD form
DatesAgree(r) ==
    /\ newReceipt.date \in ParseableDates
    /\ r.ocr_data.date \in ParseableDates
    /\ toISODate(newReceipt.date) = toISODate(r.ocr_data.date)

HasReason(r, reason) ==
    \E m \in Range(duplicates) : m.id = r.id /\ reason \in Range(m.reasons)

\* C21: for every scored row, the date signal counts (35, 'Same date') only
\* when both dates are present, parseable and normalise to the same day; with
\* an absent or unparseable date on either side the call still ends, and the
\* row is returned exactly when amount and merchant both match, with
\* confidence 65.
C21_DateSignalNeedsBothDates ==
    /\ mpc \in {"start", "done"}
    /\ mpc = "done" =>
          \A r \in QueriedRows :
              r.duplicate_of = NoId =>
                  /\ HasReason(r, "Same date") => DatesAgree(r)
                  /\ (Returned(r) /\ DatesAgree(r)) => HasReason(r, "Same date")
                  /\ ~DatesAgree(r) =>
                        /\ Returned(r) <=> (SignalsOf(r).amountMatch /\ SignalsOf(r).merchantMatch)
                        /\ Returned(r) => ReturnedWith(r, 65)

\* both dates unparseable, amount and merchant equal
C21_Witness ==
    /\ mpc = "done"
    /\ newReceipt.date = "garbage"
    /\ \E r \in Range(rows) :
          /\ r.ocr_data.date = "garbage"
          /\ r.ocr_data.merchant = KopiKenangan
          /\ ReturnedWith(r, 65)
          /\ ~HasReason(r, "Same date")

\* the labels the claim prescribes for a match of row r
ExpectedReasons(r, m) ==
       (IF Abs(normalizeAmount(newReceipt.amount) - normalizeAmount(r.ocr_data.amount)) = 0
        THEN <<"Same amount">> ELSE <<>>)
    \o (IF DatesAgree(r) THEN <<"Same date">> ELSE <<>>)
    \o (IF 10 * m.merchantSimilarity.num > 9 * m.merchantSimilarity.den
        THEN <<"Same merchant">>
        ELSE IF 10 * m.merchantSimilarity.num > 7 * m.merchantSimilarity.den
             THEN <<"Similar merchant">>
             ELSE <<>>)

\* C22: the reasons of every returned match are, in this order, 'Same
\* amount' iff the amounts match, 'Same date' iff the dates match, and
\* 'Same merchant' for a similarity above 0.9, 'Similar merchant' for one
\* above 0.7 and up to 0.9, no merchant label otherwise.
C22_ReasonsFollowSignals ==
    mpc = "done" =>
        \A m \in Range(duplicates) : \A r \in Range(rows) :
            r.id = m.id => m.reasons = ExpectedReasons(r, m)

\* a merchant similarity of exactly 0.9
C22_Witness ==
    /\ mpc = "done"
    /\ newReceipt.merchant = TenLetters
    /\ \E r \in Range(rows) :
          /\ r.ocr_data.merchant = TenLettersZ
          /\ \E m \in Range(duplicates) :
                /\ m.id = r.id
                /\ m.merchantSimilarity = [num |-> 9, den |-> 10]
                /\ m.reasons = <<"Same amount", "Same date", "Similar merchant">>

(***************************************************************************)
(* Deep analyzer: aiDuplicateAnalysis                                      *)
(*                                                                         *)
(* The provider's message content is a sequence of tokens: "{", "}",       *)
(* "text" (anything that is not part of a JSON object) and "key": value    *)
(* members.  A verdict is [isDuplicate, confidence, matchedReceiptId,      *)
(* extra]: isDuplicate is "true", "false" or "absent"; confidence is in    *)
(* tenths, -1 when absent; matchedReceiptId is an id, NoId for null or     *)
(* absent; extra names the additional field ("matches", "error", "none"). *)
(***************************************************************************)
LBrace == [key |-> "{", val |-> 0]
RBrace == [key |-> "}", val |-> 0]
Text   == [key |-> "text", val |-> 0]

Member(key, val) == [key |-> key, val |-> val]

IsMember(tok) == tok.key \in {"isDuplicate", "confidence", "matchedReceiptId"}

\* the two literal fallback verdicts and the one built in the catch block
NoCandidatesVerdict ==
    [isDuplicate |-> "false", confidence |-> 0, matchedReceiptId |-> NoId, extra |-> "matches"]

NoJsonVerdict ==
    [isDuplicate |-> "false", confidence |-> 0, matchedReceiptId |-> NoId, extra |-> "matches"]

CaughtVerdict ==
    [isDuplicate |-> "false", confidence |-> 0, matchedReceiptId |-> NoId, extra |-> "error"]

\* content.match(/\{[\s\S]*\}/): from the first "{" to the last "}", or no match
RegexMatch(content) ==
    LET opens  == {k \in 1..Len(content) : content[k] = LBrace}
        closes == {k \in 1..Len(content) : content[k] = RBrace}
        first  == CHOOSE k \in opens : \A o \in opens : k <= o
        last   == CHOOSE k \in closes : \A c \in closes : k >= c
    IN  IF opens = {} \/ closes = {} THEN <<>>
        ELSE IF last < first THEN <<>>
        ELSE SubSeq(content, first, last)

\* JSON.parse accepts the text: "{", members, "}"
IsJsonObject(text) ==
    /\ Len(text) >= 2
    /\ text[1] = LBrace
    /\ text[Len(text)] = RBrace
    /\ \A k \in 2..(Len(text) - 1) : IsMember(text[k])

RECURSIVE ParseMembers(_, _)
\* the object JSON.parse builds: a later member overrides an earlier one
ParseMembers(members, obj) ==
    IF members = <<>> THEN obj
    ELSE LET m == Head(members)
         IN  ParseMembers(Tail(members),
                CASE m.key = "isDuplicate" ->
                        [obj EXCEPT !.isDuplicate = IF m.val = 1 THEN "true" ELSE "false"]
                  [] m.key = "confidence" -> [obj EXCEPT !.confidence = m.val]
                  [] m.key = "matchedReceiptId" -> [obj EXCEPT !.matchedReceiptId = m.val])

JSONparse(text) ==
    ParseMembers(SubSeq(text, 2, Len(text) - 1),
                 [isDuplicate |-> "absent", confidence |-> -1,
                  matchedReceiptId |-> NoId, extra |-> "none"])

Return(v) == [kind |-> "return", value |-> v]
Throw     == [kind |-> "throw", value |-> CaughtVerdict]

\* the body of the try block: read the image, post, read the content, parse
TryBody(prov) ==
    IF prov.kind \in {"nofile", "throws", "timeout", "badshape"} THEN Throw
    ELSE LET jsonMatch == RegexMatch(prov.content)
         IN  IF jsonMatch # <<>>
             THEN IF IsJsonObject(jsonMatch) THEN Return(JSONparse(jsonMatch)) ELSE Throw
             ELSE Return(NoJsonVerdict)

\* variant: the try block has no catch
aiDuplicateAnalysis_NoCatch(existing, prov) ==
    IF existing = <<>> THEN Return(NoCandidatesVerdict)
    ELSE TryBody(prov)

\* variant: a failure is reported as a duplicate of unknown confidence
aiDuplicateAnalysis_UnsafeCatch(existing, prov) ==
    IF existing = <<>> THEN Return(NoCandidatesVerdict)
    ELSE LET r == TryBody(prov)
         IN  IF r.kind = "throw"
             THEN Return([CaughtVerdict EXCEPT !.isDuplicate = "true"])
             ELSE r

aiDuplicateAnalysis(existing, prov) ==
    IF existing = <<>> THEN Return(NoCandidatesVerdict)
    ELSE LET r == TryBody(prov)
         IN  IF r.kind = "throw" THEN Return(CaughtVerdict) ELSE r

(***************************************************************************)
(* Analyzer harness: one call of aiDuplicateAnalysis                       *)
(***************************************************************************)
MaxContentLen == 4

Tokens == {LBrace, RBrace, Text,
           Member("isDuplicate", 1), Member("isDuplicate", 0),
           Member("confidence", 9), Member("confidence", 7),
           Member("matchedReceiptId", 1)}

Contents == UNION {[1..n -> Tokens] : n \in 0..MaxContentLen}

ProviderOutcomes ==
    {[kind |-> k, content |-> <<>>] : k \in {"nofile", "throws", "timeout", "badshape"}}
    \cup {[kind |-> "content", content |-> c] : c \in Contents}

MatcherIdle == /\ newReceipt = [amount |-> 0, date |-> "", merchant |-> <<>>]
               /\ scopeUser = Null
               /\ rows = <<>>
               /\ duplicates = <<>>
               /\ mpc = "idle"

AnalyzerInit ==
    /\ existingReceipts \in {<<>>, <<1>>}
    /\ provider \in ProviderOutcomes
    /\ verdict = [kind |-> "idle"]
    /\ apc = "start"
    /\ MatcherIdle
    /\ ServerIdle
    /\ ClaimIdle
    /\ SimilarityIdle
    /\ OcrIdle
    /\ ArrivalIdle

\* the call with an empty candidate list
AnalyzeNoCandidates ==
    /\ apc = "start"
    /\ existingReceipts = <<>>
    /\ verdict' = aiDuplicateAnalysis(existingReceipts, provider)
    /\ apc' = IF verdict'.kind = "throw" THEN "raised" ELSE "done"
    /\ UNCHANGED <<existingReceipts, provider>>
    /\ UNCHANGED matcherVars
    /\ UNCHANGED serverVars
    /\ UNCHANGED claimVars
    /\ UNCHANGED harnessVars

\* the call with candidates: the provider is asked
AnalyzeCandidates ==
    /\ apc = "start"
    /\ existingReceipts # <<>>
    /\ verdict' = aiDuplicateAnalysis(existingReceipts, provider)
    /\ apc' = IF verdict'.kind = "throw" THEN "raised" ELSE "done"
    /\ UNCHANGED <<existingReceipts, provider>>
    /\ UNCHANGED matcherVars
    /\ UNCHANGED serverVars
    /\ UNCHANGED claimVars
    /\ UNCHANGED harnessVars

AnalyzerNext == AnalyzeNoCandidates \/ AnalyzeCandidates

AnalyzerSpec == AnalyzerInit /\ [][AnalyzerNext]_vars

(***************************************************************************)
(* Properties of the analyzer                                              *)
(***************************************************************************)
\* the text holds a well-formed JSON object somewhere
ContainsJsonObject(content) ==
    \E i \in 1..Len(content) : \E j \in i..Len(content) :
        IsJsonObject(SubSeq(content, i, j))

ProviderFailed == provider.kind \in {"throws", "timeout"}

ProviderSentNonJson == provider.kind = "content" /\ ~ContainsJsonObject(provider.content)

\* C7: aiDuplicateAnalysis never raises, and when the provider call throws,
\* times out or returns text holding no JSON object the verdict has
\* isDuplicate = false and confidence = 0.
C7_AnalyzerFailsSafe ==
    /\ apc # "raised"
    /\ (apc = "done" /\ (ProviderFailed \/ ProviderSentNonJson))
          => /\ verdict.kind = "return"
             /\ verdict.value.isDuplicate = "false"
             /\ verdict.value.confidence = 0

\* braces around prose: the regular expression matches, JSON.parse throws
C7_Witness ==
    /\ apc = "done"
    /\ existingReceipts # <<>>
    /\ provider.kind = "content"
    /\ provider.content = <<LBrace, Text, RBrace>>
    /\ verdict.value = CaughtVerdict

ExpectedFieldsMissing(obj) == obj.isDuplicate = "absent" \/ obj.confidence = -1

\* C8: a response that parses as a JSON object lacking isDuplicate or
\* confidence is converted to a non-duplicate verdict with confidence 0 and
\* an error note.
C8_MissingFieldsConverted ==
    ( /\ apc = "done"
      /\ existingReceipts # <<>>
      /\ provider.kind = "content"
      /\ IsJsonObject(provider.content)
      /\ ExpectedFieldsMissing(JSONparse(provider.content)) )
    => /\ verdict.value.isDuplicate = "false"
       /\ verdict.value.confidence = 0
       /\ verdict.value.extra = "error"

\* the first well-formed JSON object of the text: the one that starts first
FirstJsonObject(content) ==
    LET starts == {i \in 1..Len(content) :
                     \E j \in i..Len(content) : IsJsonObject(SubSeq(content, i, j))}
        i0 == CHOOSE i \in starts : \A k \in starts : i <= k
        j0 == CHOOSE j \in i0..Len(content) : IsJsonObject(SubSeq(content, i0, j))
    IN  SubSeq(content, i0, j0)

\* C19: when the provider's text holds a well-formed JSON object, whatever
\* surrounds it, the verdict is that (first) object as parsed; when it holds
\* none, the verdict is a non-duplicate one.
C19_FirstJsonObjectExtracted ==
    (apc = "done" /\ existingReceipts # <<>> /\ provider.kind = "content") =>
        IF ContainsJsonObject(provider.content)
        THEN verdict.value = JSONparse(FirstJsonObject(provider.content))
        ELSE verdict.value.isDuplicate = "false" /\ verdict.value.confidence = 0

(***************************************************************************)
(* Similarity harness: one call of stringSimilarity on two strings over a  *)
(* small alphabet (two letters, an upper-case letter, the space).          *)
(***************************************************************************)
MaxStrLen == 3

SimAlphabet == {"a", "b", "B", " "}

SimStrings == UNION {[1..n -> SimAlphabet] : n \in 0..MaxStrLen}

SimilarityInit ==
    /\ simCall \in {[pc |-> "start", str1 |-> a, str2 |-> b, result |-> [num |-> 0, den |-> 1]] :
                      a \in SimStrings, b \in SimStrings}
    /\ OcrIdle
    /\ ArrivalIdle
    /\ MatcherIdle
    /\ AnalyzerIdle
    /\ ServerIdle
    /\ ClaimIdle

Similarity ==
    /\ simCall.pc = "start"
    /\ simCall' = [simCall EXCEPT !.pc = "done",
                                  !.result = stringSimilarity(simCall.str1, simCall.str2)]
    /\ UNCHANGED ocrCall
    /\ UNCHANGED arrival
    /\ UNCHANGED matcherVars
    /\ UNCHANGED analyzerVars
    /\ UNCHANGED serverVars
    /\ UNCHANGED claimVars

SimilarityNext == Similarity

SimilaritySpec == SimilarityInit /\ [][SimilarityNext]_vars

(***************************************************************************)
(* Properties of stringSimilarity                                          *)
(***************************************************************************)
\* the string after case-folding and trimming
Normalized(str) == trim(toLowerCase(str))

\* C13: stringSimilarity returns 0 whenever either input is empty after
\* case-folding and trimming, also when both are.
C13_EmptyInputGivesZero ==
    ( /\ simCall.pc = "done"
      /\ (Normalized(simCall.str1) = <<>> \/ Normalized(simCall.str2) = <<>>) )
    => simCall.result.num = 0

\* the classic unit-cost edit distance (insert, delete, substitute)
RECURSIVE Levenshtein(_, _)
Levenshtein(a, b) ==
    IF a = <<>> THEN Len(b)
    ELSE IF b = <<>> THEN Len(a)
    ELSE IF Head(a) = Head(b) THEN Levenshtein(Tail(a), Tail(b))
    ELSE 1 + Min(Min(Levenshtein(Tail(a), b), Levenshtein(a, Tail(b))),
                 Levenshtein(Tail(a), Tail(b)))

Max(a, b) == IF a > b THEN a ELSE b

\* C14: for normalised strings a and b, not both empty, stringSimilarity is
\* (max(len a, len b) - lev(a, b)) / max(len a, len b) with lev the classic
\* edit distance; it is 1 for equal strings and lies in [0, 1].
C14_SimilarityIsNormalisedLevenshtein ==
    LET a == Normalized(simCall.str1)
        b == Normalized(simCall.str2)
        maxLen == Max(Len(a), Len(b))
    IN  (simCall.pc = "done" /\ maxLen > 0) =>
            /\ simCall.result.num * maxLen = (maxLen - Levenshtein(a, b)) * simCall.result.den
            /\ simCall.result.num >= 0
            /\ simCall.result.num <= simCall.result.den

\* C15: stringSimilarity(a, b) = stringSimilarity(b, a), also for strings of
\* equal length.
C15_SimilaritySymmetric ==
    simCall.pc = "done" =>
        LET back == stringSimilarity(simCall.str2, simCall.str1)
        IN  simCall.result.num * back.den = back.num * simCall.result.den

\* two different strings of equal length, half of their letters in common
C15_Witness ==
    /\ simCall.pc = "done"
    /\ simCall.str1 = <<"a", "b">>
    /\ simCall.str2 = <<"B", "b">>
    /\ simCall.result = [num |-> 1, den |-> 2]
    /\ stringSimilarity(simCall.str2, simCall.str1) = [num |-> 1, den |-> 2]

(***************************************************************************)
(* OCR harness: one call of extractReceiptData.  Each provider attempt     *)
(* ends in one of: an HTTP error status, a timeout, a response without     *)
(* choices, or a message content (tokens as for the analyzer, with the     *)
(* member "total_amount": value in mills).                                 *)
(***************************************************************************)
maxRetries == 3

OcrContents ==
    {<<LBrace, Member("total_amount", 10000), RBrace>>,
     <<Text, LBrace, Member("total_amount", 10000), RBrace, Text>>,
     <<LBrace, RBrace>>,
     <<Text>>,
     <<LBrace, Text, RBrace>>}

OcrOutcomes ==
    {[kind |-> "http", status |-> 402, content |-> <<>>],
     [kind |-> "http", status |-> 500, content |-> <<>>],
     [kind |-> "timeout", status |-> 0, content |-> <<>>],
     [kind |-> "badshape", status |-> 0, content |-> <<>>]}
    \cup {[kind |-> "content", status |-> 200, content |-> c] : c \in OcrContents}

\* JSON.parse accepts the text: "{", total_amount members, "}"
IsOcrObject(text) ==
    /\ Len(text) >= 2
    /\ text[1] = LBrace
    /\ text[Len(text)] = RBrace
    /\ \A k \in 2..(Len(text) - 1) : text[k].key = "total_amount"

\* the attempt gets through callUniAPI, the regular expression and JSON.parse
AttemptSucceeds(outcome) ==
    /\ outcome.kind = "content"
    /\ RegexMatch(outcome.content) # <<>>
    /\ IsOcrObject(RegexMatch(outcome.content))

\* amount: parsed.total_amount || 0 (the last total_amount member counts)
OcrResult(outcome) ==
    LET members == SubSeq(RegexMatch(outcome.content), 2, Len(RegexMatch(outcome.content)) - 1)
    IN  [amount |-> IF members = <<>> THEN 0 ELSE members[Len(members)].val]

\* the errors extractReceiptData creates itself
ReadError  == [kind |-> "read", status |-> 0, content |-> <<>>]
QuotaError == [kind |-> "quota", status |-> 402, content |-> <<>>]

\* variant: a 402 is retried like any other error
IsQuotaError_Never(outcome) == FALSE

\* error.response?.status === 402
IsQuotaError(outcome) == outcome.kind = "http" /\ outcome.status = 402

OcrInit ==
    /\ ocrCall = [pc |-> "start", attempt |-> 0, calls |-> <<>>,
                  result |-> [kind |-> "none"]]
    /\ SimilarityIdle
    /\ ArrivalIdle
    /\ MatcherIdle
    /\ AnalyzerIdle
    /\ ServerIdle
    /\ ClaimIdle

\* processImage, the file hash: the image is read, or reading it throws
OcrReadImage ==
    /\ ocrCall.pc = "start"
    /\ \E readable \in BOOLEAN :
          ocrCall' = IF readable
                     THEN [ocrCall EXCEPT !.pc = "call", !.attempt = 1]
                     ELSE [ocrCall EXCEPT !.pc = "raised",
                                          !.result = [kind |-> "error", error |-> ReadError]]
    /\ UNCHANGED simCall
    /\ UNCHANGED arrival
    /\ UNCHANGED matcherVars
    /\ UNCHANGED analyzerVars
    /\ UNCHANGED serverVars
    /\ UNCHANGED claimVars

\* one pass through the try block and, on failure, the catch block
OcrAttempt ==
    /\ ocrCall.pc = "call"
    /\ ocrCall.attempt <= maxRetries
    /\ \E outcome \in OcrOutcomes :
          LET called == [ocrCall EXCEPT !.calls = Append(ocrCall.calls, outcome)]
          IN  ocrCall' =
                IF AttemptSucceeds(outcome)
                THEN [called EXCEPT !.pc = "returned",
                                    !.result = [kind |-> "value", value |-> OcrResult(outcome)]]
                ELSE IF IsQuotaError(outcome)
                THEN [called EXCEPT !.pc = "raised",
                                    !.result = [kind |-> "error", error |-> QuotaError]]
                ELSE IF ocrCall.attempt = maxRetries
                THEN [called EXCEPT !.pc = "raised",
                                    !.result = [kind |-> "error", error |-> outcome]]
                ELSE [called EXCEPT !.pc = "sleep"]
    /\ UNCHANGED simCall
    /\ UNCHANGED arrival
    /\ UNCHANGED matcherVars
    /\ UNCHANGED analyzerVars
    /\ UNCHANGED serverVars
    /\ UNCHANGED claimVars

\* await new Promise(r => setTimeout(r, 1000 * attempt)); attempt++
OcrBackoff ==
    /\ ocrCall.pc = "sleep"
    /\ ocrCall' = [ocrCall EXCEPT !.pc = "call", !.attempt = ocrCall.attempt + 1]
    /\ UNCHANGED simCall
    /\ UNCHANGED arrival
    /\ UNCHANGED matcherVars
    /\ UNCHANGED analyzerVars
    /\ UNCHANGED serverVars
    /\ UNCHANGED claimVars

OcrNext == OcrReadImage \/ OcrAttempt \/ OcrBackoff

\* every provider call ends (answer, error or the 60 s timeout) and every
\* timer fires: a pending step is eventually taken
OcrSpec == OcrInit /\ [][OcrNext]_vars /\ WF_vars(OcrNext)

(***************************************************************************)
(* Properties of extractReceiptData                                        *)
(***************************************************************************)
OcrFinished == ocrCall.pc \in {"returned", "raised"}

PaymentRequired(outcome) == outcome.kind = "http" /\ outcome.status = 402

\* the attempt failed with an error other than a 402
FailedRetryable(outcome) == ~AttemptSucceeds(outcome) /\ ~PaymentRequired(outcome)

LastCall == ocrCall.calls[Len(ocrCall.calls)]

OcrRetriesBounded ==
    /\ Len(ocrCall.calls) <= 3
    /\ \A k \in 1..(Len(ocrCall.calls) - 1) : FailedRetryable(ocrCall.calls[k])
    /\ ocrCall.pc \in {"call", "sleep"} =>
          \A k \in 1..Len(ocrCall.calls) : FailedRetryable(ocrCall.calls[k])
    /\ ocrCall.pc = "returned" =>
          /\ Len(ocrCall.calls) >= 1
          /\ AttemptSucceeds(LastCall)
          /\ ocrCall.result = [kind |-> "value", value |-> OcrResult(LastCall)]
    /\ (ocrCall.pc = "raised" /\ Len(ocrCall.calls) >= 1) =>
          /\ ~AttemptSucceeds(LastCall)
          /\ IF PaymentRequired(LastCall)
             THEN ocrCall.result.error = QuotaError
             ELSE Len(ocrCall.calls) = 3 /\ ocrCall.result.error = LastCall

\* C20: extractReceiptData makes at most 3 provider attempts, returns the
\* result of the first attempt that succeeds, raises the error of the 3rd
\* attempt when all three fail, stops at once on a 402, and always ends.
C20_RetriesBoundedAndTerminates ==
    /\ []OcrRetriesBounded
    /\ <>OcrFinished

\* two failures, then a parse on the third attempt
C20_Witness ==
    /\ ocrCall.pc = "returned"
    /\ Len(ocrCall.calls) = 3
    /\ ocrCall.calls[1].kind = "timeout"
    /\ ocrCall.calls[2].content = <<Text>>
    /\ ocrCall.result.value.amount = 10000

(***************************************************************************)
(* Server: POST /api/receipts/upload and                                   *)
(* POST /api/admin/duplicates/:receiptId/resolve over the receipts table.  *)
(*                                                                         *)
(* An upload is a request that runs in steps, one per database access or   *)
(* provider call; other requests may run between its steps.  A row keeps   *)
(* the columns the handlers read or that carry the duplicate decision; the *)
(* file, category and audit columns (duplicate_confidence,                 *)
(* potential_duplicates) are written once and never read, and are left out.*)
(* expense_id is NULL (NoId) until a submit attaches the row to a claim.    *)
(***************************************************************************)
TestMerchant == <<"T", "e", "s", "t", " ", "M", "e", "r", "c", "h", "a", "n", "t">>

\* the users who upload
Uploaders == {"u1"}

MaxReceipts == 3
MaxInFlight == 1
MaxResolved == 1

\* what the handler goes on with after OCR: the result of extractReceiptData,
\* or, when that throws, the mock record (merchant 'Test Merchant', today's
\* date, a random whole amount from 10 to 109, no bill reference)
Today == "2024-03-01"

OcrResults == [amount : {10000, 0}, date : {Today},
               merchant : {KopiKenangan, TestMerchant}, billReference : {""}]

\* variant: an amount of zero passes
validateReceiptData_AllowsZero(data) == data.amount >= 0

\* validateReceiptData: throws unless the amount is positive
validateReceiptData(data) == data.amount > 0

\* ocrResult.billReference is set and a receipt of the user carries it
DuplicateBillReference(table, userId, ocr) ==
    /\ ocr.billReference # ""
    /\ \E r \in Range(table) :
          r.user_id = userId /\ r.ocr_data.billReference = ocr.billReference

\* variant: the analyzer runs for every returned candidate list
DeepAnalysisGate_From60(potentialDuplicates) ==
    Len(potentialDuplicates) > 0 /\ potentialDuplicates[1].confidence >= 60

\* potentialDuplicates.length > 0 && potentialDuplicates[0].confidence >= 80
DeepAnalysisGate(potentialDuplicates) ==
    Len(potentialDuplicates) > 0 /\ potentialDuplicates[1].confidence >= 80

\* variant: a confidence of 0.7 is accepted
AcceptsVerdict_AtLeast(aiAnalysis) ==
    aiAnalysis.isDuplicate = "true" /\ aiAnalysis.confidence >= 7

\* aiAnalysis.isDuplicate && aiAnalysis.confidence > 0.7
AcceptsVerdict(aiAnalysis) ==
    aiAnalysis.isDuplicate = "true" /\ aiAnalysis.confidence > 7

\* aiAnalysis.matchedReceiptId || potentialDuplicates[0].id
DuplicateOf(aiAnalysis, potentialDuplicates) ==
    IF aiAnalysis.matchedReceiptId # NoId THEN aiAnalysis.matchedReceiptId
    ELSE potentialDuplicates[1].id

NoVerdict == [isDuplicate |-> "absent", confidence |-> -1,
              matchedReceiptId |-> NoId, extra |-> "not called"]

RemoveAt(seq, k) == SubSeq(seq, 1, k - 1) \o SubSeq(seq, k + 1, Len(seq))

\* the provider answers the server's uploads can get
VerdictText(members) == <<LBrace>> \o members \o <<RBrace>>

ServerProviderOutcomes(table) ==
    {[kind |-> "timeout", content |-> <<>>]}
    \cup {[kind |-> "content", content |-> c] : c \in
            {VerdictText(<<Member("isDuplicate", 1), Member("confidence", 9)>>),
             VerdictText(<<Member("isDuplicate", 1), Member("confidence", 7)>>),
             VerdictText(<<Member("isDuplicate", 0), Member("confidence", 9)>>),
             VerdictText(<<>>)}
            \cup {VerdictText(<<Member("isDuplicate", 1), Member("confidence", 9),
                                Member("matchedReceiptId", id)>>) :
                    id \in {r.id : r \in Range(table)}}}

ServerInit ==
    /\ receipts = <<>>
    /\ uploads = <<>>
    /\ MatcherIdle
    /\ AnalyzerIdle
    /\ ClaimIdle
    /\ SimilarityIdle
    /\ OcrIdle
    /\ ArrivalIdle

\* a request arrives, OCR answers, the bill reference is looked up, the data
\* is validated: 409 and 500 end the request, otherwise it goes on to matching
Receive(userId, ocrResult) ==
    IF DuplicateBillReference(receipts, userId, ocrResult) THEN uploads' = uploads
    ELSE IF ~validateReceiptData(ocrResult) THEN uploads' = uploads
    ELSE uploads' = Append(uploads,
            [userId |-> userId, validatedData |-> ocrResult, pc |-> "match",
             potentialDuplicates |-> <<>>, calls |-> <<>>, aiAnalysis |-> NoVerdict,
             duplicateStatus |-> "none", duplicateOf |-> NoId])

UploadReceive ==
    /\ Len(uploads) < MaxInFlight
    /\ \E userId \in Uploaders : \E ocrResult \in OcrResults : Receive(userId, ocrResult)
    /\ UNCHANGED receipts
    /\ UNCHANGED matcherVars
    /\ UNCHANGED analyzerVars
    /\ UNCHANGED claimVars
    /\ UNCHANGED harnessVars

\* findPotentialDuplicates runs on the table as it is now
UploadMatch ==
    /\ \E k \in 1..Len(uploads) :
          /\ uploads[k].pc = "match"
          /\ LET req == uploads[k]
                 found == findPotentialDuplicates(receipts, req.validatedData, req.userId)
             IN  uploads' = [uploads EXCEPT ![k] =
                    [req EXCEPT !.potentialDuplicates = found,
                                !.calls = Append(req.calls, "matcher"),
                                !.pc = IF DeepAnalysisGate(found) THEN "analyze" ELSE "insert"]]
    /\ UNCHANGED receipts
    /\ UNCHANGED matcherVars
    /\ UNCHANGED analyzerVars
    /\ UNCHANGED claimVars
    /\ UNCHANGED harnessVars

\* aiDuplicateAnalysis runs and the verdict is accepted or not
UploadAnalyze ==
    /\ \E k \in 1..Len(uploads) :
          /\ uploads[k].pc = "analyze"
          /\ \E prov \in ServerProviderOutcomes(receipts) :
                LET req == uploads[k]
                    ids == [n \in 1..Len(req.potentialDuplicates) |-> req.potentialDuplicates[n].id]
                    res == aiDuplicateAnalysis(ids, prov)
                    detected == res.kind = "return" /\ AcceptsVerdict(res.value)
                IN  uploads' = [uploads EXCEPT ![k] =
                       [req EXCEPT !.calls = Append(req.calls, "analyzer"),
                                   !.aiAnalysis = res.value,
                                   !.duplicateStatus = IF detected THEN "detected" ELSE "none",
                                   !.duplicateOf = IF detected
                                                   THEN DuplicateOf(res.value, req.potentialDuplicates)
                                                   ELSE NoId,
                                   !.pc = "insert"]]
    /\ UNCHANGED receipts
    /\ UNCHANGED matcherVars
    /\ UNCHANGED analyzerVars
    /\ UNCHANGED claimVars
    /\ UNCHANGED harnessVars

\* INSERT INTO receipts
UploadInsert ==
    /\ Len(receipts) < MaxReceipts
    /\ \E k \in 1..Len(uploads) :
          /\ uploads[k].pc = "insert"
          /\ LET req == uploads[k]
             IN  /\ receipts' = Append(receipts,
                        [id |-> Len(receipts) + 1,
                         user_id |-> req.userId,
                         ocr_data |-> req.validatedData,
                         status |-> IF req.duplicateStatus = "detected"
                                    THEN "flagged" ELSE "processed",
                         duplicate_status |-> req.duplicateStatus,
                         duplicate_of |-> req.duplicateOf,
                         expense_id |-> NoId])
          /\ uploads' = RemoveAt(uploads, k)
    /\ UNCHANGED matcherVars
    /\ UNCHANGED analyzerVars
    /\ UNCHANGED claimVars
    /\ UNCHANGED harnessVars

\* the row is as its upload inserted it
AsInserted(r) ==
    \/ r.status = "processed" /\ r.duplicate_status = "none" /\ r.duplicate_of = NoId
    \/ r.status = "flagged" /\ r.duplicate_status = "detected" /\ r.duplicate_of # NoId

\* the admin may resolve row k: at most MaxResolved rows are ever changed by resolutions
MayResolve(k) ==
    \/ ~AsInserted(receipts[k])
    \/ Cardinality({n \in 1..Len(receipts) : ~AsInserted(receipts[n])}) < MaxResolved

\* resolve with isDuplicate: UPDATE receipts SET status = 'flagged'
ResolveAsDuplicate ==
    /\ \E k \in 1..Len(receipts) :
          /\ MayResolve(k)
          /\ receipts' = [receipts EXCEPT ![k].status = "flagged"]
    /\ UNCHANGED uploads
    /\ UNCHANGED matcherVars
    /\ UNCHANGED analyzerVars
    /\ UNCHANGED claimVars
    /\ UNCHANGED harnessVars

\* resolve without: UPDATE receipts SET duplicate_status = 'none', status = 'processed'
ResolveAsNotDuplicate ==
    /\ \E k \in 1..Len(receipts) :
          /\ MayResolve(k)
          /\ receipts' = [receipts EXCEPT ![k].duplicate_status = "none",
                                          ![k].status = "processed"]
    /\ UNCHANGED uploads
    /\ UNCHANGED matcherVars
    /\ UNCHANGED analyzerVars
    /\ UNCHANGED claimVars
    /\ UNCHANGED harnessVars

Next ==
    \/ UploadReceive
    \/ UploadMatch
    \/ UploadAnalyze
    \/ UploadInsert
    \/ ResolveAsDuplicate
    \/ ResolveAsNotDuplicate

Spec == ServerInit /\ [][Next]_vars

(***************************************************************************)
(* Server: POST /api/receipts/upload with bill references, several         *)
(* requests in flight.  OCR results carry a reference number or none, and  *)
(* an amount that is positive, zero (total_amount missing or 0:            *)
(* parsed.total_amount || 0) or negative.  arrival records how the latest  *)
(* request was answered when it arrived: "409" by the bill-reference       *)
(* check, "500" by the catch block after validateReceiptData threw,        *)
(* "accepted" when the handler went on to findPotentialDuplicates.         *)
(***************************************************************************)
MaxConcurrent == 2

\* a reference number is only ever compared for equality and kept as a string
RefOcrResults == [amount : {10000, 0, -5000}, date : {Today},
                  merchant : {KopiKenangan}, billReference : {"INV-1", ""}]

\* the answer the first part of the handler gives: the bill-reference lookup
\* comes before the validation
ArrivalOutcome(table, userId, ocrResult) ==
    IF DuplicateBillReference(table, userId, ocrResult) THEN "409"
    ELSE IF ~validateReceiptData(ocrResult) THEN "500"
    ELSE "accepted"

BillInit ==
    /\ receipts = <<>>
    /\ uploads = <<>>
    /\ MatcherIdle
    /\ AnalyzerIdle
    /\ ClaimIdle
    /\ SimilarityIdle
    /\ OcrIdle
    /\ ArrivalIdle

UploadArrive ==
    /\ Len(uploads) < MaxConcurrent
    /\ \E userId \in Uploaders : \E ocrResult \in RefOcrResults :
          /\ Receive(userId, ocrResult)
          /\ arrival' = [userId |-> userId, ocrResult |-> ocrResult,
                         outcome |-> ArrivalOutcome(receipts, userId, ocrResult)]
    /\ UNCHANGED receipts
    /\ UNCHANGED matcherVars
    /\ UNCHANGED analyzerVars
    /\ UNCHANGED claimVars
    /\ UNCHANGED <<simCall, ocrCall>>

BillNext ==
    \/ UploadArrive
    \/ UploadMatch
    \/ UploadAnalyze
    \/ UploadInsert

BillSpec == BillInit /\ [][BillNext]_vars

(***************************************************************************)
(* Server: POST /api/expenses/submit and                                   *)
(* POST /api/admin/verifications/:expenseId over receipts that uploads     *)
(* have stored.  A submit runs in three steps, one per statement: the      *)
(* SELECT with the flag check, the INSERT of the claim, the UPDATE of the  *)
(* receipts.  An expense id (a fresh uuid) is the row's position in the    *)
(* expenses table.                                                         *)
(***************************************************************************)
Submitters == {"u1", "u2"}

MaxStored   == 3
MaxExpenses == 2
MaxSubmits  == 1

SampleOcr == [amount |-> 10000, date |-> Today, merchant |-> KopiKenangan,
              billReference |-> ""]

\* a row as an upload of `user` stored it: processed, or flagged as a
\* duplicate of the earlier receipt dupOf
StoredRow(id, user, dupOf) ==
    [id |-> id, user_id |-> user, ocr_data |-> SampleOcr,
     status |-> IF dupOf = NoId THEN "processed" ELSE "flagged",
     duplicate_status |-> IF dupOf = NoId THEN "none" ELSE "detected",
     duplicate_of |-> dupOf,
     expense_id |-> NoId]

\* the tables uploads can have left: a flagged row points at an earlier,
\* unmarked row of the same user (the candidate the matcher returned)
StoredTables ==
    LET Choices == [user : Submitters, dupOf : 0..(MaxStored - 1)]
        Shapes  == UNION {[1..n -> Choices] : n \in 1..MaxStored}
        Stored(t) == \A k \in 1..Len(t) :
                        t[k].dupOf # NoId =>
                            /\ t[k].dupOf < k
                            /\ t[t[k].dupOf].user = t[k].user
                            /\ t[t[k].dupOf].dupOf = NoId
    IN  {[k \in 1..Len(t) |-> StoredRow(k, t[k].user, t[k].dupOf)] :
            t \in {x \in Shapes : Stored(x)}}

\* the receiptIds a client may send: any ids the table can hold
ReceiptIdLists == SUBSET (1..MaxStored)

ClaimInit ==
    /\ receipts \in StoredTables
    /\ uploads = <<>>
    /\ expenses = <<>>
    /\ submits = <<>>
    /\ MatcherIdle
    /\ AnalyzerIdle
    /\ SimilarityIdle
    /\ OcrIdle
    /\ ArrivalIdle

\* SELECT * FROM receipts WHERE id = ANY($1) AND user_id = $2
OwnReceipts(table, receiptIds, userId) ==
    SelectSeq(table, LAMBDA r : r.id \in receiptIds /\ r.user_id = userId)

\* receipts.filter(r => r.status === 'flagged' || r.duplicate_status === 'detected')
FlaggedReceipts(found) ==
    SelectSeq(found, LAMBDA r : r.status = "flagged" \/ r.duplicate_status = "detected")

\* the request passes the 400 / 404 / 400 checks
SubmitAdmits(table, receiptIds, userId) ==
    /\ receiptIds # {}
    /\ OwnReceipts(table, receiptIds, userId) # <<>>
    /\ FlaggedReceipts(OwnReceipts(table, receiptIds, userId)) = <<>>

\* the request arrives and the receipts are read and checked
SubmitCheck ==
    /\ Len(submits) < MaxSubmits
    /\ Len(expenses) + Len(submits) < MaxExpenses
    /\ \E userId \in Submitters : \E receiptIds \in ReceiptIdLists :
          IF SubmitAdmits(receipts, receiptIds, userId)
          THEN submits' = Append(submits,
                  [userId |-> userId, receiptIds |-> receiptIds,
                   found |-> {r.id : r \in Range(OwnReceipts(receipts, receiptIds, userId))},
                   expenseId |-> NoId, pc |-> "insert"])
          ELSE submits' = submits
    /\ UNCHANGED <<receipts, uploads, expenses>>
    /\ UNCHANGED matcherVars
    /\ UNCHANGED analyzerVars
    /\ UNCHANGED harnessVars

\* INSERT INTO expenses (..., receipt_ids, ..., status) VALUES (..., receiptIds, ..., 'pending_verification')
SubmitInsert ==
    /\ \E k \in 1..Len(submits) :
          /\ submits[k].pc = "insert"
          /\ expenses' = Append(expenses,
                [id |-> Len(expenses) + 1, user_id |-> submits[k].userId,
                 receipt_ids |-> submits[k].receiptIds,
                 status |-> "pending_verification"])
          /\ submits' = [submits EXCEPT ![k].expenseId = Len(expenses) + 1,
                                        ![k].pc = "update"]
    /\ UNCHANGED <<receipts, uploads>>
    /\ UNCHANGED matcherVars
    /\ UNCHANGED analyzerVars
    /\ UNCHANGED harnessVars

\* UPDATE receipts SET status = 'submitted', expense_id = $1 WHERE id = ANY($2), $2 = receiptIds
SubmitUpdate ==
    /\ \E k \in 1..Len(submits) :
          /\ submits[k].pc = "update"
          /\ receipts' = [n \in 1..Len(receipts) |->
                IF receipts[n].id \in submits[k].receiptIds
                THEN [receipts[n] EXCEPT !.status = "submitted",
                                         !.expense_id = submits[k].expenseId]
                ELSE receipts[n]]
          /\ submits' = RemoveAt(submits, k)
    /\ UNCHANGED <<uploads, expenses>>
    /\ UNCHANGED matcherVars
    /\ UNCHANGED analyzerVars
    /\ UNCHANGED harnessVars

\* POST /api/admin/verifications/:expenseId with action approve / reject:
\* the claim and the receipts listed in its receipt_ids take the new status
Verify ==
    /\ \E e \in 1..Len(expenses) : \E action \in {"approve", "reject"} :
          LET newStatus == IF action = "approve" THEN "approved" ELSE "rejected"
          IN  /\ expenses' = [expenses EXCEPT ![e].status = newStatus]
              /\ receipts' = [n \in 1..Len(receipts) |->
                    IF receipts[n].id \in expenses[e].receipt_ids
                    THEN [receipts[n] EXCEPT !.status = newStatus]
                    ELSE receipts[n]]
    /\ UNCHANGED <<uploads, submits>>
    /\ UNCHANGED matcherVars
    /\ UNCHANGED analyzerVars
    /\ UNCHANGED harnessVars

ClaimNext ==
    \/ SubmitCheck
    \/ SubmitInsert
    \/ SubmitUpdate
    \/ Verify

ClaimSpec == ClaimInit /\ [][ClaimNext]_vars

(***************************************************************************)
(* Properties of the claim workflow                                        *)
(***************************************************************************)
Blocked(r) == r.status = "flagged" \/ r.duplicate_status = "detected"

\* C12: no step of a submit moves a receipt whose status is 'flagged' or
\* whose duplicate_status is 'detected' to status 'submitted', and no such
\* receipt gets an expense_id.
C12_FlaggedNeverSubmitted ==
    [][ \A n \in 1..Len(receipts) :
            Blocked(receipts[n]) =>
                /\ receipts'[n].status = "submitted" => receipts[n].status = "submitted"
                /\ receipts'[n].expense_id = receipts[n].expense_id
      ]_vars

(***************************************************************************)
(* Properties of the upload workflow                                       *)
(***************************************************************************)
\* C6: the duplicate-link graph has depth at most 1: no receipt's
\* duplicate_of refers to a receipt that itself has duplicate_of set.
C6_LinkDepthAtMostOne ==
    \A r \in Range(receipts) : \A t \in Range(receipts) :
        (r.duplicate_of # NoId /\ t.id = r.duplicate_of) => t.duplicate_of = NoId

\* the row an insert step adds
InsertedRow == receipts'[Len(receipts')]

\* request k of this state is the one the step inserts
Inserts(k) ==
    /\ uploads[k].pc = "insert"
    /\ Len(receipts') = Len(receipts) + 1
    /\ uploads' = RemoveAt(uploads, k)

\* C9: an upload is stored with duplicate_status 'detected' (and status
\* 'flagged') exactly when its deep-analysis verdict has isDuplicate true and
\* a confidence strictly above 0.7; no other step sets 'detected'.  A verdict
\* {isDuplicate: true, confidence: 0.7} is stored as 'none'.
C9_VerdictAcceptedAboveSeventy ==
    [][ /\ \A k \in 1..Len(uploads) :
              Inserts(k) =>
                 /\ InsertedRow.duplicate_status = "detected"
                       <=> ( /\ uploads[k].aiAnalysis.isDuplicate = "true"
                             /\ uploads[k].aiAnalysis.confidence > 7 )
                 /\ InsertedRow.duplicate_status \in {"detected", "none"}
        /\ \A k \in 1..Len(receipts) :
              (Len(receipts') >= k /\ receipts'[k].duplicate_status = "detected")
                 => receipts[k].duplicate_status = "detected"
      ]_vars

\* the analyzer answered {isDuplicate: true, confidence: 0.7}: not accepted
C9_Witness ==
    \E k \in 1..Len(uploads) :
        /\ uploads[k].pc = "insert"
        /\ uploads[k].calls = <<"matcher", "analyzer">>
        /\ uploads[k].aiAnalysis.isDuplicate = "true"
        /\ uploads[k].aiAnalysis.confidence = 7
        /\ uploads[k].duplicateStatus = "none"

TopClearsGate(req) ==
    Len(req.potentialDuplicates) > 0 /\ req.potentialDuplicates[1].confidence >= 80

\* C10: in every upload the matcher is called first, and the analyzer is
\* called after it if and only if the matcher's list is non-empty and its
\* first entry has confidence >= 80.
C10_AnalyzerIffGate ==
    \A k \in 1..Len(uploads) :
        LET req == uploads[k] IN
        /\ req.pc = "match" => req.calls = <<>>
        /\ req.pc = "analyze" => req.calls = <<"matcher">> /\ TopClearsGate(req)
        /\ req.pc = "insert" =>
              /\ req.calls \in {<<"matcher">>, <<"matcher", "analyzer">>}
              /\ req.calls = <<"matcher", "analyzer">> <=> TopClearsGate(req)

\* the analyzer has run for a top candidate of confidence 100
C10_Witness ==
    \E k \in 1..Len(uploads) :
        /\ uploads[k].pc = "insert"
        /\ uploads[k].calls = <<"matcher", "analyzer">>
        /\ uploads[k].potentialDuplicates[1].confidence = 100

\* the row of the table a match was made from
RowOf(m) == CHOOSE r \in Range(rows) : r.id = m.id

AllThreeSignals(r) ==
    /\ Abs(normalizeAmount(newReceipt.amount) - normalizeAmount(r.ocr_data.amount)) = 0
    /\ DatesAgree(r)
    /\ SignalsOf(r).merchantMatch

\* C23: every match the matcher returns has confidence 60, 65, 75 or 100,
\* and the deep-analysis gate of the upload handler passes on the returned
\* list exactly when its first entry matches on amount, date and merchant.
C23_ConfidenceLevelsAndGate ==
    mpc = "done" =>
        /\ \A m \in Range(duplicates) : m.confidence \in {60, 65, 75, 100}
        /\ DeepAnalysisGate(duplicates)
              <=> (duplicates # <<>> /\ AllThreeSignals(RowOf(duplicates[1])))

\* three of the levels in one list: the gate passes on the first entry
C23_Witness ==
    /\ mpc = "done"
    /\ Len(duplicates) = 3
    /\ duplicates[1].confidence = 100
    /\ duplicates[2].confidence = 65
    /\ duplicates[3].confidence = 60
    /\ DeepAnalysisGate(duplicates)

\* C11: a receipt gets status 'flagged' only in the step that inserts it for
\* an upload whose deep-analysis verdict was accepted (isDuplicate true and
\* confidence > 0.7); no other step turns a receipt's status into 'flagged'.
C11_FlaggedOnlyByAcceptedVerdict ==
    [][ \A k \in 1..Len(receipts') :
            receipts'[k].status = "flagged" =>
                \/ k <= Len(receipts) /\ receipts[k].status = "flagged"
                \/ /\ k = Len(receipts) + 1
                   /\ \E u \in 1..Len(uploads) :
                         Inserts(u) /\ AcceptsVerdict(uploads[u].aiAnalysis)
      ]_vars

\* C24: the duplicate_of stored with a flagged upload is the id of one of
\* the candidates the matcher returned for that upload.
C24_DuplicateOfIsCandidate ==
    [][ \A k \in 1..Len(uploads) :
            (Inserts(k) /\ InsertedRow.duplicate_status = "detected") =>
                InsertedRow.duplicate_of \in
                    {uploads[k].potentialDuplicates[n].id :
                        n \in 1..Len(uploads[k].potentialDuplicates)}
      ]_vars

\* C25: a receipt has duplicate_of set only while its duplicate_status is
\* 'detected' (a resolution as not-a-duplicate clears duplicate_of).
C25_DuplicateOfOnlyWhileDetected ==
    \A r \in Range(receipts) :
        r.duplicate_of # NoId => r.duplicate_status = "detected"

\* the submit request whose UPDATE the step runs
Updates(k) ==
    /\ submits[k].pc = "update"
    /\ submits' = RemoveAt(submits, k)

\* the submit request whose INSERT the step runs
Creates(k) ==
    /\ submits[k].pc = "insert"
    /\ Len(expenses') = Len(expenses) + 1

\* C26: a submit changes only receipts of the submitting user, and the
\* expense it creates lists only receipts of that user.
C26_SubmitTouchesOwnReceiptsOnly ==
    [][ \A k \in 1..Len(submits) :
            /\ Updates(k) =>
                  \A n \in 1..Len(receipts) :
                      receipts[n].user_id # submits[k].userId => receipts'[n] = receipts[n]
            /\ Creates(k) =>
                  \A n \in 1..Len(receipts) :
                      receipts[n].id \in expenses'[Len(expenses')].receipt_ids
                          => receipts[n].user_id = submits[k].userId
      ]_vars

InClaim(r) == r.status \in {"submitted", "approved", "rejected"}

\* C27: once a receipt is 'submitted', 'approved' or 'rejected', no step of
\* a submit lists it in a new expense or changes its expense_id.
C27_ReceiptInAtMostOneClaim ==
    [][ \A k \in 1..Len(submits) :
            /\ Updates(k) =>
                  \A n \in 1..Len(receipts) :
                      (InClaim(receipts[n]) /\ receipts[n].expense_id # NoId)
                          => receipts'[n].expense_id = receipts[n].expense_id
            /\ Creates(k) =>
                  \A n \in 1..Len(receipts) :
                      InClaim(receipts[n])
                          => receipts[n].id \notin expenses'[Len(expenses')].receipt_ids
      ]_vars

Decided(e) == e.status \in {"approved", "rejected"}

\* C28: an expense moves only from 'pending_verification' to 'approved' or
\* 'rejected'; once it is approved or rejected, no step changes its status,
\* and no verification changes the status of the receipts it lists.
C28_DecidedClaimIsFinal ==
    [][ \A e \in 1..Len(expenses) :
            /\ expenses'[e].status # expenses[e].status =>
                  /\ expenses[e].status = "pending_verification"
                  /\ Decided(expenses'[e])
            /\ (Decided(expenses[e]) /\ submits' = submits) =>
                  \A n \in 1..Len(receipts) :
                      receipts[n].id \in expenses[e].receipt_ids
                          => receipts'[n].status = receipts[n].status
      ]_vars

(***************************************************************************)
(* Properties of uploads with bill references (BillSpec)                   *)
(***************************************************************************)
SameReference(a, b) ==
    /\ a.user_id = b.user_id
    /\ a.ocr_data.billReference # ""
    /\ a.ocr_data.billReference = b.ocr_data.billReference

\* C29: no two stored receipts of one user carry the same non-empty
\* billReference, whatever the interleaving of the uploads that stored them
C29_BillReferenceUnique ==
    \A i \in 1..Len(receipts) : \A j \in 1..Len(receipts) :
        i # j => ~SameReference(receipts[i], receipts[j])

\* the reference of the arriving request is already stored for its user
ReferenceStored(a) ==
    /\ a.ocrResult.billReference # ""
    /\ \E k \in 1..Len(receipts) :
          /\ receipts[k].user_id = a.userId
          /\ receipts[k].ocr_data.billReference = a.ocrResult.billReference

\* C30: a request whose extracted amount is missing, zero or negative is
\* answered with an error (500 from the failed validation, unless the
\* bill-reference lookup has already answered 409) and changes neither the
\* receipts nor the requests that go on to the matcher; so every request on
\* which the matcher or the analyzer runs, and every stored row, has a
\* positive amount
C30_InvalidAmountRejected ==
    [][/\ (arrival' # arrival /\ arrival'.ocrResult.amount <= 0) =>
             /\ arrival'.outcome = (IF ReferenceStored(arrival') THEN "409" ELSE "500")
             /\ receipts' = receipts
             /\ uploads' = uploads
       /\ \A k \in 1..Len(uploads') : uploads'[k].validatedData.amount > 0
       /\ \A k \in 1..Len(receipts') : receipts'[k].ocr_data.amount > 0]_vars

\* a request with amount zero got the 500 while a receipt was stored and
\* another request was on its way to the matcher
C30_Witness ==
    /\ arrival.outcome = "500"
    /\ arrival.ocrResult.amount = 0
    /\ Len(receipts) > 0
    /\ \E k \in 1..Len(uploads) : uploads[k].pc = "match"

====
